---- MODULE Spec2Model ----
(***************************************************************************)
(* Model of src/index.js, the hypercore auction peer.                      *)
(*                                                                         *)
(* Every peer runs the same program.  A peer keeps one append-only         *)
(* hypercore per auction name (log[p][n]), a set of swarm connections      *)
(* (conn[p]) and any number of handler invocations that are suspended at   *)
(* an await (tasks).  Messages written to a connection travel in order     *)
(* (chan[<<from, to>>]).                                                   *)
(*                                                                         *)
(* openAuction, bidAuction and closeAuction are async.  They read          *)
(* core.length and the last block, decide, and only then call              *)
(* core.append, which completes after a further await; the handler of a    *)
(* local command then awaits session.close() before processAction writes   *)
(* the message to the connections.  The model therefore splits a handler   *)
(* at these awaits: the step that reads the tail and decides               *)
(* (processAction / processMessage), the completion of the append          *)
(* (coreAppend) and the broadcast (Broadcast).  The awaits of core.ready() *)
(* and of core.get(core.length - 1) precede the decision and touch no      *)
(* state: hypercores are append-only, so the block at the index read is    *)
(* the same whenever the get resolves; they are part of the first step.    *)
(* A payload therefore stays in its channel until the handler started for  *)
(* it reads the tail.                                                      *)
(*                                                                         *)
(* The field `time: Date.now()` of a log entry is left out: no decision of *)
(* the program reads it.                                                   *)
(***************************************************************************)
EXTENDS Integers, Sequences, FiniteSets, Bags, TLC

VARIABLES
    log,    \* log[p][n]: the blocks of peer p's hypercore named n
    tasks,  \* bag of handler invocations suspended after their decision
    chan,   \* chan[<<p, q>>]: payloads written by p to its connection to q
    conn,   \* conn[p]: the peers in p's swarm.connections
    ncmd,   \* number of command lines read since the initial state
    nraw,   \* number of payloads received that no processAction wrote
    last    \* the most recent validation: its input and what it returned

vars == <<log, tasks, chan, conn, ncmd, nraw, last>>

(***************************************************************************)
(* Bounds of the model.                                                    *)
(***************************************************************************)
MaxCmds == 2

MaxCmdsRules == 1

MaxInputs == 1

MaxSerial == 3

Peers == {"A", "B", "C"}

Names == {"pic1"}

\* Price texts are sequences of characters, so that Number can parse them.
P75 == <<"7", "5">>
P755 == <<"7", "5", ".", "5">>
P80 == <<"8", "0">>
P80d0 == <<"8", "0", ".", "0">>
Pabc == <<"a", "b", "c">>

Prices == {P75, P80, P80d0, Pabc}

\* The command lines typed at a terminal, already split at whitespace.
Lines ==
    {<<c, n, p>> : c \in {"open", "bid", "close"}, n \in Names, p \in Prices}
        \cup {<<"help">>, <<"sell", "pic1", P75>>}

(***************************************************************************)
(* Number(text) of JavaScript, for texts made of digits, at most one dot   *)
(* and letters: a text with a letter, with two dots or without any digit   *)
(* is NaN; the empty text is 0.  A number is kept as a fraction num/den.   *)
(***************************************************************************)
Digits == {"0", "1", "2", "3", "4", "5", "6", "7", "8", "9"}

DigitVal(c) ==
    CASE c = "0" -> 0 [] c = "1" -> 1 [] c = "2" -> 2 [] c = "3" -> 3
      [] c = "4" -> 4 [] c = "5" -> 5 [] c = "6" -> 6 [] c = "7" -> 7
      [] c = "8" -> 8 [] c = "9" -> 9

RECURSIVE ParseDigits(_, _)
ParseDigits(s, acc) ==
    IF s = <<>> THEN acc
    ELSE ParseDigits(Tail(s), acc * 10 + DigitVal(Head(s)))

RECURSIVE Pow10(_)
Pow10(k) == IF k = 0 THEN 1 ELSE 10 * Pow10(k - 1)

NaN == [nan |-> TRUE, num |-> 0, den |-> 1]

Number(t) ==
    LET dots == {i \in 1..Len(t) : t[i] = "."}
        digs == {i \in 1..Len(t) : t[i] \in Digits}
    IN  IF t = <<>> THEN [nan |-> FALSE, num |-> 0, den |-> 1]
        ELSE IF dots \cup digs # 1..Len(t) \/ Cardinality(dots) > 1 \/ digs = {}
        THEN NaN
        ELSE LET d == IF dots = {} THEN Len(t) + 1 ELSE CHOOSE i \in dots : TRUE
                 whole == SubSeq(t, 1, d - 1)
                 frac == SubSeq(t, d + 1, Len(t))
             IN  [nan |-> FALSE,
                  num |-> ParseDigits(whole \o frac, 0),
                  den |-> Pow10(Len(frac))]

\* a <= b on numbers: false as soon as either is NaN.
NumLE(a, b) == ~a.nan /\ ~b.nan /\ a.num * b.den <= b.num * a.den

NumLT(a, b) == ~a.nan /\ ~b.nan /\ a.num * b.den < b.num * a.den

(***************************************************************************)
(* JSON.stringify and JSON.parse of the two objects the program            *)
(* serialises: a log entry (updateCore) and a wire message (processAction).*)
(* The serialised form is the sequence of the field values in the order    *)
(* the object literal lists them.                                          *)
(***************************************************************************)
StringifyAuction(a) == <<a.type, a.name, a.owner, a.actor, a.price>>

ParseBlock(b) ==
    [type |-> b[1], name |-> b[2], owner |-> b[3], actor |-> b[4], price |-> b[5]]

StringifyMsg(m) == <<m.type, m.name, m.price>>

ParseMsg(raw) == [type |-> raw[1], name |-> raw[2], price |-> raw[3]]

(***************************************************************************)
(* updateCore: the block that core.append receives.                        *)
(***************************************************************************)
updateCore(type, name, owner, actor, price) ==
    StringifyAuction([type |-> type, name |-> name, owner |-> owner,
                      actor |-> actor, price |-> price])

NoBlock == <<>>

Accept(block) == [ok |-> TRUE, block |-> block]

Reject == [ok |-> FALSE, block |-> NoBlock]

\* lastAction = JSON.parse(await core.get(core.length - 1))
LastAction(core) == ParseBlock(core[Len(core)])

(***************************************************************************)
(* The decisions of the three handlers on the core as read.                *)
(***************************************************************************)
\* openAuction checking the reopening peer against lastAction.actor.
openAuctionActorCheck(core, peer, name, price) ==
    IF Len(core) # 0
    THEN LET lastAction == LastAction(core)
         IN  IF lastAction.type # "close" \/ lastAction.actor # peer
             THEN Reject
             ELSE Accept(updateCore("open", name, peer, peer, price))
    ELSE Accept(updateCore("open", name, peer, peer, price))

openAuction(core, peer, name, price) ==
    IF Len(core) # 0
    THEN LET lastAction == LastAction(core)
         IN  IF lastAction.type # "close" \/ lastAction.owner # peer
             THEN Reject
             ELSE Accept(updateCore("open", name, lastAction.owner, peer, price))
    ELSE Accept(updateCore("open", name, peer, peer, price))

\* bidAuction rejecting only a lower price (`<` for `<=`).
bidAuctionEqualOk(core, peer, name, price) ==
    IF Len(core) = 0 THEN Reject
    ELSE LET lastAction == LastAction(core)
         IN  IF lastAction.type = "close" THEN Reject
             ELSE IF NumLT(Number(price), Number(lastAction.price)) THEN Reject
             ELSE Accept(updateCore("bid", name, lastAction.owner, peer, price))

bidAuction(core, peer, name, price) ==
    IF Len(core) = 0 THEN Reject
    ELSE LET lastAction == LastAction(core)
         IN  IF lastAction.type = "close" THEN Reject
             ELSE IF NumLE(Number(price), Number(lastAction.price)) THEN Reject
             ELSE Accept(updateCore("bid", name, lastAction.owner, peer, price))

\* closeAuction recording a sale on a core that has no block yet.
closeAuctionOnEmpty(core, peer, name, price) ==
    IF Len(core) = 0 THEN Accept(updateCore("close", name, peer, peer, price))
    ELSE LET lastAction == LastAction(core)
         IN  IF lastAction.owner # peer THEN Reject
             ELSE IF lastAction.price # price THEN Reject
             ELSE Accept(updateCore("close", name, lastAction.actor, peer, price))

\* closeAuction without the check of the price.
closeAuctionAnyPrice(core, peer, name, price) ==
    IF Len(core) = 0 THEN Reject
    ELSE LET lastAction == LastAction(core)
         IN  IF lastAction.owner # peer THEN Reject
             ELSE Accept(updateCore("close", name, lastAction.actor, peer, price))

closeAuction(core, peer, name, price) ==
    IF Len(core) = 0 THEN Reject
    ELSE LET lastAction == LastAction(core)
         IN  IF lastAction.owner # peer THEN Reject
             ELSE IF lastAction.price # price THEN Reject
             ELSE Accept(updateCore("close", name, lastAction.actor, peer, price))

\* The dispatch on the action type shared by processAction and processMessage.
Handler(core, type, peer, name, price) ==
    CASE type = "open" -> openAuction(core, peer, name, price)
      [] type = "bid" -> bidAuction(core, peer, name, price)
      [] type = "close" -> closeAuction(core, peer, name, price)

Types == {"open", "bid", "close"}

(***************************************************************************)
(* The record of a validation: who evaluated (peer), on whose behalf       *)
(* (actor), what, the core.length it read and what it returned.            *)
(***************************************************************************)
NoEval ==
    [peer |-> "", local |-> FALSE, actor |-> "", type |-> "", name |-> "",
     price |-> <<>>, len |-> 0, ok |-> FALSE, block |-> NoBlock]

Eval(p, isLocal, actor, type, name, price) ==
    LET r == Handler(log[p][name], type, actor, name, price)
    IN  [peer |-> p, local |-> isLocal, actor |-> actor, type |-> type,
         name |-> name, price |-> price, len |-> Len(log[p][name]),
         ok |-> r.ok, block |-> r.block]

Task(p, isLocal, name, block, pc) ==
    [peer |-> p, local |-> isLocal, name |-> name, block |-> block, pc |-> pc]

(***************************************************************************)
(* The state after construction: empty store, no connection, nothing read. *)
(***************************************************************************)
Start ==
    /\ log = [p \in Peers |-> [n \in Names |-> <<>>]]
    /\ tasks = EmptyBag
    /\ chan = [e \in (Peers \X Peers) |-> <<>>]
    /\ conn = [p \in Peers |-> {}]
    /\ ncmd = 0
    /\ nraw = 0
    /\ last = NoEval

(***************************************************************************)
(* The log of the sample scenario (lines 5-12) once everybody has          *)
(* processed everything: Client#1 = A, Client#2 = B, Client#3 = C.         *)
(***************************************************************************)
SampleLog ==
    << updateCore("open", "pic1", "A", "A", P75),
       updateCore("bid", "pic1", "A", "C", P755),
       updateCore("bid", "pic1", "A", "B", P80),
       updateCore("close", "pic1", "B", "A", P80) >>

(***************************************************************************)
(* Init: the state after construction, or a state the sample scenario      *)
(* leaves behind when it is run among three connected peers up to its      *)
(* k-th accepted action (SpecScenario reaches each of them from Start).    *)
(***************************************************************************)
Init ==
    \/ Start
    \/ \E k \in 1..Len(SampleLog) :
          /\ log = [p \in Peers |-> [n \in Names |->
                       IF n = "pic1" THEN SubSeq(SampleLog, 1, k) ELSE <<>>]]
          /\ tasks = EmptyBag
          /\ chan = [e \in (Peers \X Peers) |-> <<>>]
          /\ conn = [p \in Peers |-> Peers \ {p}]
          /\ ncmd = 0
          /\ nraw = 0
          /\ last = NoEval

\* A connection handler that replays the local log to the new peer.
ConnectSync(p, q) ==
    /\ p # q
    /\ q \notin conn[p]
    /\ conn' = [conn EXCEPT ![p] = @ \cup {q}, ![q] = @ \cup {p}]
    /\ chan' = [chan EXCEPT
                  ![<<p, q>>] = @ \o [i \in 1..Len(log[p]["pic1"]) |->
                                        StringifyMsg(ParseBlock(log[p]["pic1"][i]))],
                  ![<<q, p>>] = @ \o [i \in 1..Len(log[q]["pic1"]) |->
                                        StringifyMsg(ParseBlock(log[q]["pic1"][i]))]]
    /\ UNCHANGED <<log, tasks, ncmd, nraw, last>>

(***************************************************************************)
(* swarm.on('connection'): the two ends of a new connection register it.   *)
(***************************************************************************)
Connect(p, q) ==
    /\ p # q
    /\ q \notin conn[p]
    /\ conn' = [conn EXCEPT ![p] = @ \cup {q}, ![q] = @ \cup {p}]
    /\ UNCHANGED <<log, tasks, chan, ncmd, nraw, last>>

(***************************************************************************)
(* processAction(line), up to the handler's call of core.append.           *)
(***************************************************************************)
BadLine(p, arr) ==
    /\ Len(arr) < 3 \/ arr[1] \notin Types
    /\ last' = NoEval
    /\ UNCHANGED <<log, tasks, chan, conn, nraw>>

LocalAction(p, arr) ==
    /\ Len(arr) >= 3
    /\ arr[1] \in Types
    /\ LET e == Eval(p, TRUE, p, arr[1], arr[2], arr[3])
       IN  /\ last' = e
           /\ tasks' = IF e.ok
                       THEN tasks (+) SetToBag({Task(p, TRUE, arr[2], e.block, "append")})
                       ELSE tasks
    /\ UNCHANGED <<log, chan, conn, nraw>>

processAction(p, arr) ==
    /\ ncmd' = ncmd + 1
    /\ \/ BadLine(p, arr)
       \/ LocalAction(p, arr)

(***************************************************************************)
(* What a connection can deliver.  The other end of a connection is any    *)
(* software that joined the topic: besides the messages processAction      *)
(* writes, a payload may be a text JSON.parse throws on, or an object that *)
(* carries more members than type, name and price (here an owner and an    *)
(* actor, after the three).                                                *)
(***************************************************************************)
NotJSON == <<"{">>

JSONParses(raw) == raw # NotJSON

ForgedActor == "A"

ForeignPayloads ==
    {NotJSON} \cup
        {<<t, n, pr, ForgedActor, ForgedActor>> :
            t \in Types, n \in Names, pr \in {P75, P80}}

\* processMessage returned without calling a handler.
Discard(p, q) == [NoEval EXCEPT !.peer = p, !.actor = q]

\* processMessage writing an accepted message on to its other connections.
processMessageRelay(p, q) ==
    /\ chan[<<q, p>>] # <<>>
    /\ LET raw == Head(chan[<<q, p>>])
       IN  IF ~JSONParses(raw) \/ ParseMsg(raw).type \notin Types
           THEN last' = Discard(p, q) /\ tasks' = tasks
                /\ chan' = [chan EXCEPT ![<<q, p>>] = Tail(@)]
           ELSE LET msg == ParseMsg(raw)
                    e == Eval(p, FALSE, q, msg.type, msg.name, msg.price)
                IN  /\ last' = e
                    /\ tasks' = IF e.ok
                                THEN tasks (+) SetToBag({Task(p, FALSE, msg.name, e.block, "append")})
                                ELSE tasks
                    /\ chan' = [c \in (Peers \X Peers) |->
                                  IF c = <<q, p>> THEN Tail(chan[c])
                                  ELSE IF e.ok /\ c[1] = p /\ c[2] \in conn[p] \ {q}
                                  THEN Append(chan[c], raw)
                                  ELSE chan[c]]
    /\ UNCHANGED <<log, conn, ncmd, nraw>>

\* processMessage recording the proposal whatever the handler returned.
processMessageAppendsRejected(p, q) ==
    /\ chan[<<q, p>>] # <<>>
    /\ LET raw == Head(chan[<<q, p>>])
       IN  IF ~JSONParses(raw) \/ ParseMsg(raw).type \notin Types
           THEN last' = Discard(p, q) /\ tasks' = tasks
           ELSE LET msg == ParseMsg(raw)
                    e == Eval(p, FALSE, q, msg.type, msg.name, msg.price)
                    b == IF e.ok THEN e.block
                         ELSE updateCore(msg.type, msg.name, q, q, msg.price)
                IN  /\ last' = e
                    /\ tasks' = tasks (+) SetToBag({Task(p, FALSE, msg.name, b, "append")})
    /\ chan' = [chan EXCEPT ![<<q, p>>] = Tail(@)]
    /\ UNCHANGED <<log, conn, ncmd, nraw>>

\* processMessage taking the acting peer from the payload when it names one.
processMessageTrusting(p, q) ==
    /\ chan[<<q, p>>] # <<>>
    /\ LET raw == Head(chan[<<q, p>>])
       IN  IF ~JSONParses(raw) \/ ParseMsg(raw).type \notin Types
           THEN last' = Discard(p, q) /\ tasks' = tasks
           ELSE LET msg == ParseMsg(raw)
                    who == IF Len(raw) >= 5 THEN raw[5] ELSE q
                    e == Eval(p, FALSE, who, msg.type, msg.name, msg.price)
                IN  /\ last' = e
                    /\ tasks' = IF e.ok
                                THEN tasks (+) SetToBag({Task(p, FALSE, msg.name, e.block, "append")})
                                ELSE tasks
    /\ chan' = [chan EXCEPT ![<<q, p>>] = Tail(@)]
    /\ UNCHANGED <<log, conn, ncmd, nraw>>

\* processMessage calling the handlers with localPeer.
processMessageAsSelf(p, q) ==
    /\ chan[<<q, p>>] # <<>>
    /\ LET raw == Head(chan[<<q, p>>])
       IN  IF ~JSONParses(raw) \/ ParseMsg(raw).type \notin Types
           THEN last' = Discard(p, q) /\ tasks' = tasks
           ELSE LET msg == ParseMsg(raw)
                    e == Eval(p, FALSE, p, msg.type, msg.name, msg.price)
                IN  /\ last' = e
                    /\ tasks' = IF e.ok
                                THEN tasks (+) SetToBag({Task(p, FALSE, msg.name, e.block, "append")})
                                ELSE tasks
    /\ chan' = [chan EXCEPT ![<<q, p>>] = Tail(@)]
    /\ UNCHANGED <<log, conn, ncmd, nraw>>

(***************************************************************************)
(* processMessage(peer, rawMessage) at p for the next payload on the       *)
(* connection from q, up to the handler's call of core.append.  A payload  *)
(* that does not parse is reported and dropped; one whose type is none of  *)
(* the three calls no handler.                                             *)
(***************************************************************************)
processMessage(p, q) ==
    /\ chan[<<q, p>>] # <<>>
    /\ LET raw == Head(chan[<<q, p>>])
       IN  IF ~JSONParses(raw) \/ ParseMsg(raw).type \notin Types
           THEN last' = Discard(p, q) /\ tasks' = tasks
           ELSE LET msg == ParseMsg(raw)
                    e == Eval(p, FALSE, q, msg.type, msg.name, msg.price)
                IN  /\ last' = e
                    /\ tasks' = IF e.ok
                                THEN tasks (+) SetToBag({Task(p, FALSE, msg.name, e.block, "append")})
                                ELSE tasks
    /\ chan' = [chan EXCEPT ![<<q, p>>] = Tail(@)]
    /\ UNCHANGED <<log, conn, ncmd, nraw>>

(***************************************************************************)
(* peer.on('data'): the remote end of the connection from q to p sends a   *)
(* payload of its own making.                                              *)
(***************************************************************************)
ForeignWrite(q, p, raw) ==
    /\ q \in conn[p]
    /\ chan' = [chan EXCEPT ![<<q, p>>] = Append(@, raw)]
    /\ nraw' = nraw + 1
    /\ UNCHANGED <<log, tasks, conn, ncmd, last>>

\* An append that lets a received entry take the place of the tail.
coreAppendLastWins(t) ==
    /\ t.pc = "append"
    /\ log' = [log EXCEPT ![t.peer][t.name] =
                  IF ~t.local /\ @ # <<>>
                  THEN Append(SubSeq(@, 1, Len(@) - 1), t.block)
                  ELSE Append(@, t.block)]
    /\ tasks' = IF t.local
                THEN (tasks (-) SetToBag({t})) (+) SetToBag({[t EXCEPT !.pc = "bcast"]})
                ELSE tasks (-) SetToBag({t})
    /\ UNCHANGED <<chan, conn, ncmd, nraw, last>>

\* An append that holds the core exclusively: the handlers that decided on
\* the tail this append replaces are abandoned.
coreAppendExclusive(t) ==
    /\ t.pc = "append"
    /\ log' = [log EXCEPT ![t.peer][t.name] = Append(@, t.block)]
    /\ LET stale == {u \in BagToSet(tasks) :
                        u.pc = "append" /\ u.peer = t.peer /\ u.name = t.name}
           kept == [u \in BagToSet(tasks) \ stale |-> tasks[u]]
       IN  tasks' = IF t.local
                    THEN kept (+) SetToBag({[t EXCEPT !.pc = "bcast"]})
                    ELSE kept
    /\ UNCHANGED <<chan, conn, ncmd, nraw, last>>

(***************************************************************************)
(* core.append completes.  The handler of a local command goes on to       *)
(* return true to processAction; the handler of a message is done.         *)
(***************************************************************************)
coreAppend(t) ==
    /\ t.pc = "append"
    /\ log' = [log EXCEPT ![t.peer][t.name] = Append(@, t.block)]
    /\ tasks' = IF t.local
                THEN (tasks (-) SetToBag({t})) (+) SetToBag({[t EXCEPT !.pc = "bcast"]})
                ELSE tasks (-) SetToBag({t})
    /\ UNCHANGED <<chan, conn, ncmd, nraw, last>>

\* A broadcast to every peer, connected or not.
BroadcastAll(t) ==
    /\ t.pc = "bcast"
    /\ LET b == ParseBlock(t.block)
           msg == [type |-> b.type, name |-> b.name, price |-> b.price]
       IN  chan' = [e \in (Peers \X Peers) |->
                       IF e[1] = t.peer /\ e[2] # t.peer
                       THEN Append(chan[e], StringifyMsg(msg))
                       ELSE chan[e]]
    /\ tasks' = tasks (-) SetToBag({t})
    /\ UNCHANGED <<log, conn, ncmd, nraw, last>>

(***************************************************************************)
(* processAction, lines 111-119: the message goes to every connection.     *)
(***************************************************************************)
Broadcast(t) ==
    /\ t.pc = "bcast"
    /\ LET b == ParseBlock(t.block)
           msg == [type |-> b.type, name |-> b.name, price |-> b.price]
       IN  chan' = [e \in (Peers \X Peers) |->
                       IF e[1] = t.peer /\ e[2] \in conn[t.peer]
                       THEN Append(chan[e], StringifyMsg(msg))
                       ELSE chan[e]]
    /\ tasks' = tasks (-) SetToBag({t})
    /\ UNCHANGED <<log, conn, ncmd, nraw, last>>

Next ==
    \/ \E p, q \in Peers : Connect(p, q)
    \/ \E p \in Peers, arr \in Lines : ncmd < MaxCmds /\ processAction(p, arr)
    \/ \E p, q \in Peers : processMessage(p, q)
    \/ \E t \in BagToSet(tasks) : coreAppend(t)
    \/ \E t \in BagToSet(tasks) : Broadcast(t)

Spec == Init /\ [][Next]_vars

(***************************************************************************)
(* The same program with a smaller budget of command lines, for what one   *)
(* validation, one append or one broadcast does in any of the initial      *)
(* states.                                                                 *)
(***************************************************************************)
NextRules ==
    \/ \E p, q \in Peers : Connect(p, q)
    \/ \E p \in Peers, arr \in Lines : ncmd < MaxCmdsRules /\ processAction(p, arr)
    \/ \E p, q \in Peers : processMessage(p, q)
    \/ \E t \in BagToSet(tasks) : coreAppend(t)
    \/ \E t \in BagToSet(tasks) : Broadcast(t)

SpecRules == Init /\ [][NextRules]_vars

(***************************************************************************)
(* The program on connections that also deliver payloads no processAction  *)
(* wrote; MaxInputs bounds the command lines and these payloads together.   *)
(***************************************************************************)
NextWire ==
    \/ \E p, q \in Peers : Connect(p, q)
    \/ \E p \in Peers, arr \in Lines : ncmd + nraw < MaxInputs /\ processAction(p, arr)
    \/ \E p, q \in Peers, raw \in ForeignPayloads :
          ncmd + nraw < MaxInputs /\ ForeignWrite(q, p, raw)
    \/ \E p, q \in Peers : processMessage(p, q)
    \/ \E t \in BagToSet(tasks) : coreAppend(t)
    \/ \E t \in BagToSet(tasks) : Broadcast(t)

SpecWire == Init /\ [][NextWire]_vars

(***************************************************************************)
(* The sample scenario, one command at a time: a command line is read only *)
(* when all peers are connected and every earlier broadcast has been       *)
(* delivered and processed.  Client#1 = A, Client#2 = B, Client#3 = C;     *)
(* after the close, A and then B try to reopen, at any price.              *)
(***************************************************************************)
AnyPrice == <<>>

Script ==
    << <<"A", <<"open", "pic1", P75>>>>,
       <<"B", <<"bid", "pic1", P75>>>>,
       <<"C", <<"bid", "pic1", P755>>>>,
       <<"B", <<"bid", "pic1", P80>>>>,
       <<"A", <<"close", "pic1", P80>>>>,
       <<"A", <<"open", "pic1", AnyPrice>>>>,
       <<"B", <<"open", "pic1", AnyPrice>>>> >>

ScriptStep ==
    /\ ncmd < Len(Script)
    /\ tasks = EmptyBag
    /\ \A e \in Peers \X Peers : chan[e] = <<>>
    /\ \A p \in Peers : conn[p] = Peers \ {p}
    /\ ncmd' = ncmd + 1
    /\ LET p == Script[ncmd + 1][1]
           arr == Script[ncmd + 1][2]
       IN  \E price \in (IF arr[3] = AnyPrice THEN Prices ELSE {arr[3]}) :
               LocalAction(p, <<arr[1], arr[2], price>>)

NextScenario ==
    \/ \E p, q \in Peers : Connect(p, q)
    \/ ScriptStep
    \/ \E p, q \in Peers : processMessage(p, q)
    \/ \E t \in BagToSet(tasks) : coreAppend(t)
    \/ \E t \in BagToSet(tasks) : Broadcast(t)

SpecScenario == Start /\ [][NextScenario]_vars

(***************************************************************************)
(* Reading the state.                                                      *)
(***************************************************************************)
Entry(p, n, i) == ParseBlock(log[p][n][i])

Indices(p, n) == 1..Len(log[p][n])

NumEQ(a, b) == ~a.nan /\ ~b.nan /\ a.num * b.den = b.num * a.den

SamePrice(x, y) == x = y \/ NumEQ(Number(x), Number(y))

\* The tail that the most recent validation read (it read a non-empty core).
TailRead == ParseBlock(log[last.peer][last.name][last.len])

Quiescent == tasks = EmptyBag /\ \A e \in Peers \X Peers : chan[e] = <<>>

AllConnected == \A p \in Peers : conn[p] = Peers \ {p}

(***************************************************************************)
(* C1.  For every peer and every auction name, the prices of the non-Close *)
(* entries of the log, in log order over the whole log, are strictly       *)
(* increasing.  The code does not keep this: a bid whose price text is not *)
(* a number passes `Number(price) <= Number(lastAction.price)`, a bid      *)
(* decided on a stale tail is appended behind a higher one, and a reopen   *)
(* may carry any price.                                                    *)
(***************************************************************************)
C1_NonClosePricesIncrease ==
    \A p \in Peers, n \in Names :
        \A i, j \in Indices(p, n) :
            (i < j /\ Entry(p, n, i).type # "close" /\ Entry(p, n, j).type # "close")
                => NumLT(Number(Entry(p, n, i).price), Number(Entry(p, n, j).price))

(***************************************************************************)
(* C2.  In every peer's log each Close entry has a predecessor and the     *)
(* Close entry's price equals the price of the entry immediately before    *)
(* it, whatever the interleaving.  The code decides a close on the tail it *)
(* read and appends later: a bid appended in between separates the two.    *)
(***************************************************************************)
C2_ClosePriceIsPredecessorPrice ==
    \A p \in Peers, n \in Names :
        \A i \in Indices(p, n) :
            Entry(p, n, i).type = "close"
                => /\ i > 1
                   /\ SamePrice(Entry(p, n, i).price, Entry(p, n, i - 1).price)

(***************************************************************************)
(* C3.  In every peer's log each Close entry's owner equals the actor of   *)
(* the entry immediately before it.  As for C2, the code takes the owner   *)
(* from the tail it read, which need not be the entry the Close lands      *)
(* behind.                                                                 *)
(***************************************************************************)
C3_CloseOwnerIsPredecessorActor ==
    \A p \in Peers, n \in Names :
        \A i \in Indices(p, n) :
            Entry(p, n, i).type = "close"
                => /\ i > 1
                   /\ Entry(p, n, i).owner = Entry(p, n, i - 1).actor

(***************************************************************************)
(* Reading a step.  A validation is run by exactly two kinds of step: a    *)
(* command line is read (ncmd grows) or a payload leaves a channel; last'  *)
(* then holds its input and what it returned.                              *)
(***************************************************************************)
EvalStep ==
    \/ ncmd' # ncmd
    \/ \E e \in Peers \X Peers : Len(chan'[e]) < Len(chan[e])

\* The step accepted the proposal: exactly one append of the proposed entry,
\* with this owner and this actor, is now pending at the evaluating peer.
AcceptedWith(owner, actor) ==
    /\ last'.ok
    /\ log' = log
    /\ \E t \in BagToSet(tasks') :
          /\ tasks' = tasks (+) SetToBag({t})
          /\ t.peer = last'.peer /\ t.name = last'.name /\ t.pc = "append"
          /\ ParseBlock(t.block) =
                [type |-> last'.type, name |-> last'.name, owner |-> owner,
                 actor |-> actor, price |-> last'.price]

\* The step rejected the proposal: nothing is appended and nothing is pending.
Rejected == ~last'.ok /\ log' = log /\ tasks' = tasks

(***************************************************************************)
(* C4.  An Open proposal evaluated against a tail that is a Close entry    *)
(* with owner W is accepted if and only if the proposer is W; the entry to *)
(* append then has owner = actor = proposer; any other proposer is         *)
(* rejected and the log is unchanged.                                      *)
(***************************************************************************)
C4_ReopenOnlyByNewOwner ==
    [][ (EvalStep /\ last'.type = "open" /\ last'.len > 0 /\ TailRead'.type = "close")
            => IF last'.actor = TailRead'.owner
               THEN AcceptedWith(last'.actor, last'.actor)
               ELSE Rejected ]_vars

\* A reopen by the new owner has been accepted and appended behind the Close.
C4_Witness ==
    /\ last.type = "open" /\ last.len > 0 /\ last.ok
    /\ TailRead.type = "close"
    /\ TailRead.owner # TailRead.actor
    /\ \E i \in Indices(last.peer, last.name) :
          /\ i > last.len
          /\ Entry(last.peer, last.name, i) =
                [type |-> "open", name |-> last.name, owner |-> last.actor,
                 actor |-> last.actor, price |-> last.price]

C6_ClosedRejectsBidAndClose ==
    (last.type \in {"bid", "close"} /\ last.len > 0 /\ TailRead.type = "close")
        => ~last.ok

Wire(block) ==
    <<ParseBlock(block).type, ParseBlock(block).name, ParseBlock(block).price>>

InLog(p, n, block) == \E i \in Indices(p, n) : log[p][n][i] = block

(***************************************************************************)
(* C7.  A message is written to connections only by a locally issued       *)
(* command whose local validate-and-append succeeded: a step that adds to  *)
(* a channel is the broadcast of one local handler whose entry is already  *)
(* in the local log, and it writes that one message {type, name, price}    *)
(* once to every connection in the connection set at that moment and to    *)
(* nobody else; a locally rejected command leaves no handler behind that   *)
(* could write.                                                            *)
(***************************************************************************)
C7_BroadcastOnlyAfterLocalAppend ==
    [][ /\ (\E e \in Peers \X Peers : Len(chan'[e]) > Len(chan[e]))
            => \E t \in BagToSet(tasks) :
                  /\ t.local /\ t.pc = "bcast"
                  /\ InLog(t.peer, t.name, t.block)
                  /\ tasks' = tasks (-) SetToBag({t})
                  /\ \A e \in Peers \X Peers :
                        chan'[e] = IF e[1] = t.peer /\ e[2] \in conn[t.peer]
                                   THEN Append(chan[e], Wire(t.block))
                                   ELSE chan[e]
        /\ (ncmd' # ncmd /\ ~last'.ok) => (tasks' = tasks /\ chan' = chan)
        /\ \A t \in BagToSet(tasks') :
              t.pc = "bcast" => (t.local /\ InLog(t.peer, t.name, t.block)') ]_vars

\* A broadcast reached the one connected peer and not the unconnected one.
C7_Witness ==
    \E p, q, r \in Peers :
        /\ q \in conn[p] /\ r \notin conn[p] /\ r # p
        /\ chan[<<p, q>>] # <<>> /\ chan[<<p, r>>] = <<>>
        /\ \E i \in Indices(p, "pic1") :
              /\ Wire(log[p]["pic1"][i]) = Head(chan[<<p, q>>])
              /\ Entry(p, "pic1", i).actor = p

ScenarioVerdict == <<TRUE, FALSE, TRUE, TRUE, TRUE, FALSE, TRUE>>

ScenarioEntry(type, owner, actor, price) ==
    [type |-> type, name |-> "pic1", owner |-> owner, actor |-> actor, price |-> price]

\* The entries the scenario appends, the reopen's price being free.
ScenarioLog ==
    << {ScenarioEntry("open", "A", "A", P75)},
       {ScenarioEntry("bid", "A", "C", P755)},
       {ScenarioEntry("bid", "A", "B", P80)},
       {ScenarioEntry("close", "B", "A", P80)},
       {ScenarioEntry("open", "B", "B", price) : price \in Prices} >>

\* How many of the first k commands of the scenario are accepted.
ScenarioLen == <<1, 1, 2, 3, 4, 4, 5>>

(***************************************************************************)
(* C8.  The sample scenario among three connected peers, each broadcast    *)
(* delivered before the next command: A open 75 accepted; B bid 75         *)
(* rejected; C bid 75.5 accepted; B bid 80 accepted; A close 80 accepted   *)
(* with the Close entry's owner B; then open by A rejected and open by B   *)
(* accepted.  Stated on the originator's verdict for the k-th command and  *)
(* on the log every peer holds once the k-th command has been processed    *)
(* everywhere.                                                             *)
(***************************************************************************)
C8_Scenario ==
    /\ (ncmd > 0 /\ last.local) => last.ok = ScenarioVerdict[ncmd]
    /\ (ncmd > 0 /\ Quiescent)
          => \A p \in Peers :
                /\ Len(log[p]["pic1"]) = ScenarioLen[ncmd]
                /\ \A i \in Indices(p, "pic1") : Entry(p, "pic1", i) \in ScenarioLog[i]
                /\ log[p] = log["A"]

\* The whole scenario has run and the reopen by B is in every log.
C8_Witness ==
    /\ ncmd = Len(Script)
    /\ Quiescent
    /\ \A p \in Peers :
          /\ Len(log[p]["pic1"]) = 5
          /\ Entry(p, "pic1", 4).owner = "B"
          /\ Entry(p, "pic1", 5).actor = "B"

Quiet(n) ==
    /\ \A t \in BagToSet(tasks) : t.name # n
    /\ \A e \in Peers \X Peers : \A i \in 1..Len(chan[e]) : ParseMsg(chan[e][i]).name # n

(***************************************************************************)
(* C9.  A peer that connects only after the events of an auction have been *)
(* broadcast has an empty log for it, and keeps it: when nothing of the    *)
(* auction is pending or in flight anywhere, no step other than the        *)
(* reading of a new command line (a connection included) puts anything of  *)
(* the auction in flight or into an empty log.                             *)
(***************************************************************************)
C9_NoRetroactiveSync ==
    [][ \A p \in Peers, n \in Names :
            (Quiet(n) /\ log[p][n] = <<>> /\ ncmd' = ncmd)
                => (Quiet(n)' /\ log'[p][n] = <<>>) ]_vars

\* A late joiner: connected to a peer that holds the auction, itself empty.
C9_Witness ==
    \E p, q \in Peers, n \in Names :
        /\ q \in conn[p]
        /\ log[q][n] # <<>>
        /\ log[p][n] = <<>>
        /\ Quiet(n)

Prefix(p, n, k) == SubSeq(log[p][n], 1, k)

AcceptedAgainst(p, n, j, k) ==
    LET e == Entry(p, n, j)
    IN  Handler(Prefix(p, n, k), e.type, e.actor, n, e.price) = Accept(log[p][n][j])

(***************************************************************************)
(* C10.  Within one peer two proposals for the same auction can both read  *)
(* the same tail before either appends and both be appended, although     *)
(* evaluated one after the other the second would have been rejected.      *)
(* No lock spans the read and the append: a decision taken on the tail as  *)
(* read stands, and its entry is appended whatever else is appended to the *)
(* same log in between.  The witness is a log whose last two bids were     *)
(* both accepted against the same tail, the later not higher than the      *)
(* earlier.                                                                *)
(***************************************************************************)
C10_DecisionStands ==
    [][ \A t \in BagToSet(tasks) :
            t.pc = "append"
                => \/ CopiesIn(t, tasks') >= CopiesIn(t, tasks)
                   \/ /\ CopiesIn(t, tasks') = CopiesIn(t, tasks) - 1
                      /\ log'[t.peer][t.name] = Append(log[t.peer][t.name], t.block) ]_vars

\* Two bids decided on the same tail: the second is not higher than the first.
C10_Witness ==
    \E p \in Peers, n \in Names :
        \E j \in Indices(p, n) :
            /\ j > 2
            /\ Entry(p, n, j).type = "bid" /\ Entry(p, n, j - 1).type = "bid"
            /\ AcceptedAgainst(p, n, j, j - 2)
            /\ AcceptedAgainst(p, n, j - 1, j - 2)
            /\ ~AcceptedAgainst(p, n, j, j - 1)
            /\ NumLE(Number(Entry(p, n, j).price), Number(Entry(p, n, j - 1).price))

(***************************************************************************)
(* C11.  In every peer's log each Open entry is the first entry or comes   *)
(* immediately after a Close entry whose owner is the Open entry's actor;  *)
(* no Open entry comes immediately after an Open or a Bid entry, whatever  *)
(* the interleaving.  The code decides an open on the core.length it read: *)
(* two opens that both read an empty core are both appended.               *)
(***************************************************************************)
C11_OpenFirstOrAfterClose ==
    \A p \in Peers, n \in Names :
        \A i \in Indices(p, n) :
            Entry(p, n, i).type = "open"
                => \/ i = 1
                   \/ /\ Entry(p, n, i - 1).type = "close"
                      /\ Entry(p, n, i - 1).owner = Entry(p, n, i).actor

(***************************************************************************)
(* C12.  A Bid proposal evaluated against a tail that is an Open or a Bid  *)
(* entry is accepted if and only if its price is strictly greater than the *)
(* tail's price, for every price a proposal can carry; the entry to append *)
(* has the tail's owner, the bidder as actor and the proposed price.  The  *)
(* code rejects when Number(price) <= Number(lastAction.price): a price    *)
(* text that is not a number is greater than nothing and is accepted.      *)
(***************************************************************************)
C12_BidAcceptedIffHigher ==
    (last.type = "bid" /\ last.len > 0 /\ TailRead.type \in {"open", "bid"})
        => /\ last.ok <=> NumLT(Number(TailRead.price), Number(last.price))
           /\ last.ok => ParseBlock(last.block) =
                            [type |-> "bid", name |-> last.name,
                             owner |-> TailRead.owner, actor |-> last.actor,
                             price |-> last.price]

(***************************************************************************)
(* C13.  On an auction whose log is empty, an Open proposal by any         *)
(* identity at any price is accepted and the entry to append has           *)
(* owner = actor = proposer; every Bid and every Close proposal is         *)
(* rejected and the log stays empty.                                       *)
(***************************************************************************)
C13_EmptyLogOnlyOpens ==
    [][ (EvalStep /\ last'.type \in Types /\ last'.len = 0)
            => IF last'.type = "open"
               THEN AcceptedWith(last'.actor, last'.actor)
               ELSE Rejected /\ log'[last'.peer][last'.name] = <<>> ]_vars

\* An open received from a peer was accepted on an empty log and appended.
C13_Witness ==
    /\ last.type = "open" /\ last.len = 0 /\ last.ok /\ ~last.local
    /\ last.actor # last.peer
    /\ log[last.peer][last.name] =
          <<updateCore("open", last.name, last.actor, last.actor, last.price)>>

(***************************************************************************)
(* C16.  Duplicate delivery is idempotent: when the tail of a peer's log   *)
(* is the entry appended for a message from sender S and the identical     *)
(* message from S is evaluated next against that tail, it is rejected, for *)
(* every kind.  The code re-validates the duplicate like any proposal:     *)
(* the duplicate of a close by a seller whose auction had no bid meets a   *)
(* Close tail of which the seller is the owner, at the same price, and is  *)
(* accepted again; so is the duplicate of a bid whose price is not a       *)
(* number.                                                                 *)
(***************************************************************************)
C16_DuplicateRejected ==
    ( /\ last.type \in Types /\ ~last.local /\ last.len > 0
      /\ TailRead.type = last.type
      /\ TailRead.actor = last.actor
      /\ TailRead.price = last.price )
        => ~last.ok

(***************************************************************************)
(* C19.  Price comparisons in validation are numeric, not textual: two     *)
(* price texts that denote the same number are equal for the bid rule (the *)
(* bid is not higher and is rejected) and for the close rule (the seller's *)
(* close at a price text that denotes the tail's price is accepted).  The  *)
(* code compares Number(...) in bidAuction but the two texts themselves in *)
(* closeAuction.                                                           *)
(***************************************************************************)
C19_PriceComparedAsNumber ==
    ( /\ last.type \in {"bid", "close"} /\ last.len > 0
      /\ TailRead.type \in {"open", "bid"}
      /\ NumEQ(Number(last.price), Number(TailRead.price)) )
        => /\ last.type = "bid" => ~last.ok
           /\ (last.type = "close" /\ last.actor = TailRead.owner) => last.ok

(***************************************************************************)
(* C14.  Processing an inbound payload, be it accepted, rejected or        *)
(* undecodable, writes nothing to any connection: the step that takes a    *)
(* payload from a connection changes the payloads in flight by removing    *)
(* that one only and starts no handler that would broadcast, and the       *)
(* handler it started ends at its append without a write.                  *)
(***************************************************************************)
C14_IngestWritesNothing ==
    [][ /\ \A p, q \in Peers :
              Len(chan'[<<q, p>>]) < Len(chan[<<q, p>>])
                  => /\ chan' = [chan EXCEPT ![<<q, p>>] = Tail(@)]
                     /\ \A t \in BagToSet(tasks') :
                           CopiesIn(t, tasks') > CopiesIn(t, tasks)
                               => ~t.local /\ t.pc = "append"
        /\ \A t \in BagToSet(tasks) :
              (~t.local /\ CopiesIn(t, tasks') < CopiesIn(t, tasks))
                  => chan' = chan /\ tasks' = tasks (-) SetToBag({t}) ]_vars

\* A peer with two connections has appended a received entry; nothing is in
\* flight to anybody.
C14_Witness ==
    /\ last.type \in Types /\ ~last.local /\ last.ok
    /\ conn[last.peer] = Peers \ {last.peer}
    /\ Len(log[last.peer][last.name]) = last.len + 1
    /\ Entry(last.peer, last.name, last.len + 1).actor = last.actor
    /\ Quiescent

(***************************************************************************)
(* C15.  A proposal that is not accepted leaves every log of the peer that *)
(* evaluated it unchanged: an inbound payload that does not decode appends *)
(* nothing, and a local or inbound proposal that validation rejects        *)
(* appends nothing and leaves no append pending.                           *)
(***************************************************************************)
C15_NotAcceptedLeavesLogs ==
    [][ (EvalStep /\ ~last'.ok) => (log' = log /\ tasks' = tasks) ]_vars

\* An undecodable payload was dropped by a peer that holds an auction.
C15_Witness ==
    /\ nraw = 1
    /\ last.peer \in Peers /\ last.actor \in Peers
    /\ last = Discard(last.peer, last.actor)
    /\ log[last.peer]["pic1"] = SampleLog
    /\ Quiescent

(***************************************************************************)
(* C17.  Every entry appended as the result of an inbound message has as   *)
(* actor the identity of the connection the message arrived on: the        *)
(* handler started for a payload is called with that identity and with the *)
(* payload's type, name and price, whatever else the payload carries, and  *)
(* a log grows only by the entry some pending handler decided on.          *)
(***************************************************************************)
C17_ActorIsConnectionIdentity ==
    [][ /\ \A p, q \in Peers :
              Len(chan'[<<q, p>>]) < Len(chan[<<q, p>>])
                  => \A t \in BagToSet(tasks') :
                        CopiesIn(t, tasks') > CopiesIn(t, tasks)
                            => /\ t.peer = p /\ ~t.local
                               /\ ParseBlock(t.block).actor = q
                               /\ Wire(t.block) = SubSeq(Head(chan[<<q, p>>]), 1, 3)
        /\ \A p \in Peers, n \in Names :
              log'[p][n] # log[p][n]
                  => \E t \in BagToSet(tasks) :
                        /\ t.peer = p /\ t.name = n /\ t.pc = "append"
                        /\ CopiesIn(t, tasks') < CopiesIn(t, tasks)
                        /\ log'[p][n] = Append(log[p][n], t.block) ]_vars

\* A payload that names another actor was accepted and its entry appended
\* with the sender's identity.
C17_Witness ==
    /\ nraw = 1 /\ ncmd = 0
    /\ last.type \in Types /\ ~last.local /\ last.ok
    /\ last.actor # ForgedActor
    /\ Len(log[last.peer][last.name]) > last.len
    /\ Entry(last.peer, last.name, last.len + 1).actor = last.actor
    /\ \A i \in Indices(last.peer, last.name) :
          i > last.len => Entry(last.peer, last.name, i).actor # ForgedActor

(***************************************************************************)
(* The program among peers that are all connected to one another before    *)
(* the first command line is read: the store is empty or holds the sample  *)
(* scenario up to its k-th accepted action.  No connection can be added.   *)
(***************************************************************************)
InitConnected ==
    \E k \in 0..Len(SampleLog) :
        /\ log = [p \in Peers |-> [n \in Names |->
                     IF n = "pic1" THEN SubSeq(SampleLog, 1, k) ELSE <<>>]]
        /\ tasks = EmptyBag
        /\ chan = [e \in (Peers \X Peers) |-> <<>>]
        /\ conn = [p \in Peers |-> Peers \ {p}]
        /\ ncmd = 0
        /\ nraw = 0
        /\ last = NoEval

NextConnected ==
    \/ \E p \in Peers, arr \in Lines : ncmd < MaxCmds /\ processAction(p, arr)
    \/ \E p, q \in Peers : processMessage(p, q)
    \/ \E t \in BagToSet(tasks) : coreAppend(t)
    \/ \E t \in BagToSet(tasks) : Broadcast(t)

SpecConnected == InitConnected /\ [][NextConnected]_vars

\* The logs of p and q for n hold different entries at some index of both.
Forked(p, q, n) ==
    \E i \in Indices(p, n) \cap Indices(q, n) : log[p][n][i] # log[q][n][i]

(***************************************************************************)
(* C18.  Cross-peer forks are reachable and permanent.  Reachable: the     *)
(* witness is a state, among peers connected from the start and with every *)
(* broadcast delivered and processed, in which two peers' logs of the same *)
(* auction hold different entries at the same index.  Permanent: no step   *)
(* takes two logs out of a fork, so no sequence of steps makes them equal. *)
(***************************************************************************)
C18_ForkIsPermanent ==
    [][ \A p, q \in Peers, n \in Names :
            Forked(p, q, n) => (Forked(p, q, n)' /\ log'[p][n] # log'[q][n]) ]_vars

\* Everything delivered and processed, and two logs differ at an index.
C18_Witness ==
    /\ Quiescent
    /\ AllConnected
    /\ \E p, q \in Peers, n \in Names :
          /\ Forked(p, q, n)
          /\ Len(log[p][n]) = Len(log[q][n])

(***************************************************************************)
(* The program with its command lines read one at a time: a line is read   *)
(* only when all peers are connected to one another and every earlier      *)
(* broadcast has been delivered and processed by every peer.               *)
(***************************************************************************)
SerialStep(p, arr) ==
    /\ Quiescent
    /\ AllConnected
    /\ processAction(p, arr)

NextSerial ==
    \/ \E p, q \in Peers : Connect(p, q)
    \/ \E p \in Peers, arr \in Lines : ncmd < MaxSerial /\ SerialStep(p, arr)
    \/ \E p, q \in Peers : processMessage(p, q)
    \/ \E t \in BagToSet(tasks) : coreAppend(t)
    \/ \E t \in BagToSet(tasks) : Broadcast(t)

SpecSerial == Init /\ [][NextSerial]_vars

(***************************************************************************)
(* C20.  When all peers are connected before the first action and the      *)
(* actions are issued one at a time, each one's broadcast delivered to and *)
(* processed by every peer before the next, then after every action all    *)
(* peers' logs of every auction are identical, and every peer decides each *)
(* action as its originator did: a peer that evaluates a received action   *)
(* accepts it with the entry the originator appended, at the same index    *)
(* (an action its originator rejected is never sent).                      *)
(***************************************************************************)
C20_SerialAgreement ==
    /\ Quiescent => \A p, q \in Peers : log[p] = log[q]
    /\ (last.type \in Types /\ ~last.local)
          => /\ last.ok
             /\ Len(log[last.actor][last.name]) = last.len + 1
             /\ log[last.actor][last.name][last.len + 1] = last.block

\* Several actions have been issued, the latest accepted everywhere, and the
\* logs have grown by at least two entries that all peers hold.
C20_Witness ==
    /\ ncmd = MaxSerial
    /\ Quiescent
    /\ last.type \in Types /\ ~last.local /\ last.ok
    /\ \A p \in Peers :
          /\ log[p] = log[last.actor]
          /\ Len(log[p][last.name]) = last.len + 1
    /\ Entry(last.actor, last.name, last.len + 1).actor = last.actor
    /\ \E i \in 1..last.len : Entry(last.actor, last.name, i).actor # last.actor

====
